---- MODULE Spec2Model ----
(***************************************************************************)
(* Host-side orchestration of blackhole-wgpu (src/src/main.rs): the winit  *)
(* ApplicationHandler callbacks of App (resumed, window_event,             *)
(* about_to_wait), GpuState::new / resize / update_camera_buffer / render  *)
(* and the orbit camera controller CameraCtrl.                             *)
(*                                                                         *)
(* Numbers.  f32 angles are fixed point in micro-radians, the camera       *)
(* radius and the zoom factor are fixed point in thousandths, cursor       *)
(* positions are whole pixels, u32 sizes are naturals (the extents         *)
(* explored stay far below 2^32 - 7, where size + 7 would wrap).           *)
(* GPU objects are records; a texture carries the handle the device gave   *)
(* it, and a view or a binding set carries the object it was built from.   *)
(***************************************************************************)
EXTENDS Integers, Sequences, FiniteSets

(***************************************************************************)
(* Bounds of the exploration.                                              *)
(***************************************************************************)
\* Largest reading of the monotonic clock.
MaxTime == 1
\* Cursor moves are explored while yaw stays within this many 100-pixel
\* drags of its initial value.
MaxYawSteps == 1
MaxScrolls == 20

(***************************************************************************)
(* Program constants.                                                      *)
(***************************************************************************)
\* std::f32::consts::PI, in micro-radians.
PI == 3141593
\* let sensitivity = 0.005 (radians per pixel), in micro-radians per pixel.
sensitivity == 5000
\* Workgroup tile edge of the tracer dispatch.
TILE == 8
\* Vertices of the full-surface triangle.
VERTICES == 3
\* The id of the one window the application creates, and a foreign id.
WinId == 1
OtherWinId == 2

Max(a, b) == IF a >= b THEN a ELSE b

\* f32::clamp(self, min, max)
clamp(v, lo, hi) == IF v < lo THEN lo ELSE IF v > hi THEN hi ELSE v

\* let limit = 0.995 * (PI / 2.0)
limit == (995 * (PI \div 2)) \div 1000

\* f32::to_radians, degrees to micro-radians.
to_radians(deg) == (deg * PI) \div 180

RECURSIVE GCD(_, _)
GCD(a, b) == IF b = 0 THEN a ELSE GCD(b, a % b)

\* Option<T>: None is the empty sequence, Some(v) the one-element sequence.
None == <<>>
Some(v) == <<v>>

(***************************************************************************)
(* CameraCtrl                                                              *)
(***************************************************************************)
\* CameraCtrl::new
CameraCtrl_new ==
  [yaw |-> 600000, pitch |-> 300000, radius |-> 4000,
   fov_y |-> to_radians(60), dragging |-> FALSE, last_cursor |-> None]

\* compute_camera_mats: the two inverse matrices are functions of the eye
\* (yaw, pitch, radius), of fov_y and of the aspect ratio
\* max(width,1) / max(height,1); a matrix is represented by what determines it.
compute_camera_mats(ctrl, width, height) ==
  LET w == Max(width, 1)
      h == Max(height, 1)
      g == GCD(w, h)
  IN  [view_inv |-> [yaw |-> ctrl.yaw, pitch |-> ctrl.pitch, radius |-> ctrl.radius],
       proj_inv |-> [fov_y |-> ctrl.fov_y, aspect |-> <<w \div g, h \div g>>]]

\* The CameraUbo built from the two matrices, the extent and the time.
CameraUbo(mats, width, height, time) ==
  [view_inv |-> mats.view_inv,
   proj_inv |-> mats.proj_inv,
   params   |-> <<width, height, time, 0>>]

(***************************************************************************)
(* GPU objects                                                             *)
(***************************************************************************)
\* Handles of the textures a GpuState keeps alive: the stored texture and
\* the ones its two binding sets were built from.
LiveTextures(st) ==
  {st.storage_tex.id, st.compute_bg.view.texture.id, st.render_bg.view.texture.id}

\* The handle the device gives a new texture: one no live texture has.
FreshId(live) == CHOOSE i \in 1..(Cardinality(live) + 1) : i \notin live

\* create_storage_texture: the texture and its default view.
create_storage_texture(id, width, height) ==
  LET tex == [id |-> id, width |-> width, height |-> height, format |-> "Rgba8Unorm"]
  IN  [tex |-> tex, view |-> [texture |-> tex]]

\* device.create_bind_group for compute_bg: binding 0 the storage view,
\* binding 1 the camera buffer.
create_compute_bg(view) == [label |-> "compute_bg", view |-> view, buffer |-> "camera_buf"]

\* device.create_bind_group for render_bg: binding 0 the storage view,
\* binding 1 the sampler.
create_render_bg(view) == [label |-> "render_bg", view |-> view, sampler |-> "sampler"]

(***************************************************************************)
(* State                                                                   *)
(***************************************************************************)
VARIABLES
  window,            \* App.window : Option<&'static Window>
  surface,           \* App.surface : Option<Surface>, with its configured extent
  state,             \* App.state : Option<GpuState>
  start,             \* App.start : Instant
  now,               \* the monotonic clock Instant::now() reads
  run,               \* "running", "exiting" (elwt.exit()) or "panicked" (expect)
  redraw_requested,  \* the window's pending request_redraw()
  last_call,         \* the callback delivered last and the match arm it took
  gpu_ops            \* the device, queue and surface calls that callback made

vars == <<window, surface, state, start, now, run, redraw_requested, last_call, gpu_ops>>

\* The GpuState inside App.state, once it is Some.
St == state[1]

\* PhysicalSize<u32>
PhysicalSize(w, h) == [width |-> w, height |-> h]

(***************************************************************************)
(* GpuState::new                                                           *)
(***************************************************************************)
\* The GpuState value and the calls GpuState::new ends with, given the
\* objects it created on the way.
GpuState_assemble(size, config, made, ubo) ==
  [state |-> [config       |-> config,
              size         |-> size,
              storage_tex  |-> made.tex,
              storage_view |-> made.view,
              camera_ctrl  |-> CameraCtrl_new,
              camera_buf   |-> ubo,
              compute_bg   |-> create_compute_bg(made.view),
              render_bg    |-> create_render_bg(made.view)],
   surface |-> [width |-> config.width, height |-> config.height],
   ops |-> << [op |-> "configure", width |-> config.width, height |-> config.height],
              [op |-> "create_texture", tex |-> made.tex],
              [op |-> "create_buffer_init", data |-> ubo],
              [op |-> "create_bind_group", bind_group |-> create_compute_bg(made.view)],
              [op |-> "create_bind_group", bind_group |-> create_render_bg(made.view)] >>]

\* The rest of GpuState::new once config is built: the storage texture at
\* config's extent and the first camera block (time 0).
GpuState_configured(size, config) ==
  GpuState_assemble(size, config,
    create_storage_texture(FreshId({}), config.width, config.height),
    CameraUbo(compute_camera_mats(CameraCtrl_new, config.width, config.height),
              config.width, config.height, 0))

\* GpuState::new after the adapter and the device were obtained;
\* size is window.inner_size().
GpuState_new(size) ==
  GpuState_configured(size,
    [width |-> Max(size.width, 1), height |-> Max(size.height, 1), present_mode |-> "Fifo"])

(***************************************************************************)
(* GpuState::update_camera_buffer, GpuState::resize, GpuState::render      *)
(* Each takes the GpuState (and the surface) and yields the new ones with  *)
(* the calls made, in order.                                               *)
(***************************************************************************)
\* queue.write_buffer(&camera_buf, 0, ubo)
write_camera_buf(st, ubo) ==
  [state |-> [st EXCEPT !.camera_buf = ubo],
   ops |-> << [op |-> "write_buffer", data |-> ubo] >>]

update_camera_buffer(st, time) ==
  write_camera_buf(st,
    CameraUbo(compute_camera_mats(st.camera_ctrl, st.config.width, st.config.height),
              st.config.width, st.config.height, time))

\* The end of resize: the refreshed camera block, after the calls that
\* reconfigured the surface and rebuilt the texture and the binding sets.
resize_finish(upd, surf, ops) ==
  [state |-> upd.state, surface |-> surf, ops |-> ops \o upd.ops]

\* resize_rebuild with render_bg left as it was: the display binding set
\* still references the replaced texture.
resize_rebuild_stale(st, made) ==
  resize_finish(
    update_camera_buffer([st EXCEPT !.storage_tex = made.tex,
                                    !.storage_view = made.view,
                                    !.compute_bg = create_compute_bg(made.view)], 0),
    [width |-> st.config.width, height |-> st.config.height],
    << [op |-> "configure", width |-> st.config.width, height |-> st.config.height],
       [op |-> "create_texture", tex |-> made.tex],
       [op |-> "create_bind_group", bind_group |-> create_compute_bg(made.view)] >>)

\* resize_rebuild putting the controller back to CameraCtrl::new().
resize_rebuild_reset_ctrl(st, made) ==
  resize_finish(
    update_camera_buffer([st EXCEPT !.storage_tex = made.tex,
                                    !.storage_view = made.view,
                                    !.compute_bg = create_compute_bg(made.view),
                                    !.render_bg = create_render_bg(made.view),
                                    !.camera_ctrl = CameraCtrl_new], 0),
    [width |-> st.config.width, height |-> st.config.height],
    << [op |-> "configure", width |-> st.config.width, height |-> st.config.height],
       [op |-> "create_texture", tex |-> made.tex],
       [op |-> "create_bind_group", bind_group |-> create_compute_bg(made.view)],
       [op |-> "create_bind_group", bind_group |-> create_render_bg(made.view)] >>)

\* resize from surface.configure on: st already holds the new size and
\* config, made is the new storage texture and its view.
resize_rebuild(st, made) ==
  resize_finish(
    update_camera_buffer([st EXCEPT !.storage_tex = made.tex,
                                    !.storage_view = made.view,
                                    !.compute_bg = create_compute_bg(made.view),
                                    !.render_bg = create_render_bg(made.view)], 0),
    [width |-> st.config.width, height |-> st.config.height],
    << [op |-> "configure", width |-> st.config.width, height |-> st.config.height],
       [op |-> "create_texture", tex |-> made.tex],
       [op |-> "create_bind_group", bind_group |-> create_compute_bg(made.view)],
       [op |-> "create_bind_group", bind_group |-> create_render_bg(made.view)] >>)

\* resize_apply creating the texture at the extent config had before.
resize_apply_old_extent(st, new_size) ==
  resize_rebuild([st EXCEPT !.size = new_size,
                            !.config.width = new_size.width,
                            !.config.height = new_size.height],
                 create_storage_texture(FreshId(LiveTextures(st)),
                                        st.config.width, st.config.height))

\* resize after its zero check: store the size, set config's extent,
\* create the storage texture at config's extent.
resize_apply(st, new_size) ==
  resize_rebuild([st EXCEPT !.size = new_size,
                            !.config.width = new_size.width,
                            !.config.height = new_size.height],
                 create_storage_texture(FreshId(LiveTextures(st)),
                                        new_size.width, new_size.height))

\* resize without its zero check.
resize_unchecked(st, surf, new_size) == resize_apply(st, new_size)

resize(st, surf, new_size) ==
  IF new_size.width = 0 \/ new_size.height = 0
  THEN [state |-> st, surface |-> surf, ops |-> <<>>]
  ELSE resize_apply(st, new_size)

\* The workgroup counts render computes: (size + 7) / 8.
wg_count(n) == (n + 7) \div TILE

\* render_frame drawing before it dispatches and presenting before it submits.
render_frame_reordered(upd, acquire) ==
  [state |-> upd.state,
   result |-> acquire,
   ops |-> upd.ops \o
           << [op |-> "get_current_texture", result |-> acquire] >> \o
           IF acquire # "Ok" THEN <<>>
           ELSE << [op |-> "draw", bind_group |-> upd.state.render_bg, clear |-> "BLACK",
                    vertices |-> VERTICES, instances |-> 1],
                   [op |-> "dispatch_workgroups", bind_group |-> upd.state.compute_bg,
                    x |-> wg_count(upd.state.size.width),
                    y |-> wg_count(upd.state.size.height), z |-> 1],
                   [op |-> "present"],
                   [op |-> "submit", passes |-> <<"trace_compute", "blit_render">>] >>]

\* render after update_camera_buffer(time): acquire is what
\* surface.get_current_texture() returns, "Ok" or the SurfaceError variant.
render_frame(upd, acquire) ==
  [state |-> upd.state,
   result |-> acquire,
   ops |-> upd.ops \o
           << [op |-> "get_current_texture", result |-> acquire] >> \o
           IF acquire # "Ok" THEN <<>>
           ELSE << [op |-> "dispatch_workgroups", bind_group |-> upd.state.compute_bg,
                    x |-> wg_count(upd.state.size.width),
                    y |-> wg_count(upd.state.size.height), z |-> 1],
                   [op |-> "draw", bind_group |-> upd.state.render_bg, clear |-> "BLACK",
                    vertices |-> VERTICES, instances |-> 1],
                   [op |-> "submit", passes |-> <<"trace_compute", "blit_render">>],
                   [op |-> "present"] >>]

\* render without its update_camera_buffer call.
render_no_update(st, time, acquire) == render_frame([state |-> st, ops |-> <<>>], acquire)

\* GpuState::render: render_frame on what update_camera_buffer leaves.
render(st, time, acquire) ==
  CHOOSE r \in {render_frame(upd, acquire) : upd \in {update_camera_buffer(st, time)}} : TRUE

(***************************************************************************)
(* Window events and the controller's transitions                          *)
(***************************************************************************)
CloseRequested == [kind |-> "CloseRequested"]
Resized(new_size) == [kind |-> "Resized", new_size |-> new_size]
MouseInput(mstate, button) == [kind |-> "MouseInput", state |-> mstate, button |-> button]
CursorMoved(x, y) == [kind |-> "CursorMoved", position |-> [x |-> x, y |-> y]]
MouseWheel(delta) == [kind |-> "MouseWheel", delta |-> delta]
RedrawRequested == [kind |-> "RedrawRequested"]
\* Any event window_event has no arm for (its `_ => {}`).
Focused == [kind |-> "Focused"]

\* MouseScrollDelta::LineDelta(_, y), y in lines; PixelDelta(p), p.y in pixels.
LineDelta(y) == [unit |-> "LineDelta", y |-> y]
PixelDelta(y) == [unit |-> "PixelDelta", y |-> y]

\* The MouseInput arm, button Left.
mouse_input(ctrl, mstate) ==
  [ctrl EXCEPT !.dragging = (mstate = "Pressed"),
               !.last_cursor = IF mstate # "Pressed" THEN None ELSE @]

\* drag_by without the clamp of pitch.
drag_by_unclamped(ctrl, pos, prev) ==
  [ctrl EXCEPT !.yaw = ctrl.yaw - (pos.x - prev.x) * sensitivity,
               !.pitch = ctrl.pitch - (pos.y - prev.y) * sensitivity]

\* drag_by adding the horizontal delta to yaw.
drag_by_inverted(ctrl, pos, prev) ==
  [ctrl EXCEPT !.yaw = ctrl.yaw + (pos.x - prev.x) * sensitivity,
               !.pitch = clamp(ctrl.pitch - (pos.y - prev.y) * sensitivity, -limit, limit)]

\* The body of `if let Some(prev) = last_cursor`: delta = pos - prev.
drag_by(ctrl, pos, prev) ==
  [ctrl EXCEPT !.yaw = ctrl.yaw - (pos.x - prev.x) * sensitivity,
               !.pitch = clamp(ctrl.pitch - (pos.y - prev.y) * sensitivity, -limit, limit)]

\* cursor_moved without the test of the drag flag.
cursor_moved_always(ctrl, position) ==
  IF ctrl.last_cursor # None
  THEN [ctrl |-> [drag_by(ctrl, position, ctrl.last_cursor[1])
                    EXCEPT !.last_cursor = Some(position)],
        request_redraw |-> TRUE]
  ELSE [ctrl |-> [ctrl EXCEPT !.last_cursor = Some(position)],
        request_redraw |-> FALSE]

\* cursor_moved dragging without calling win.request_redraw().
cursor_moved_silent(ctrl, position) ==
  IF ctrl.dragging
  THEN [ctrl |-> IF ctrl.last_cursor # None
                 THEN [drag_by(ctrl, position, ctrl.last_cursor[1])
                         EXCEPT !.last_cursor = Some(position)]
                 ELSE [ctrl EXCEPT !.last_cursor = Some(position)],
        request_redraw |-> FALSE]
  ELSE [ctrl |-> ctrl, request_redraw |-> FALSE]

\* The CursorMoved arm: the controller afterwards, and whether
\* win.request_redraw() was called.
cursor_moved(ctrl, position) ==
  IF ctrl.dragging
  THEN IF ctrl.last_cursor # None
       THEN [ctrl |-> [drag_by(ctrl, position, ctrl.last_cursor[1])
                         EXCEPT !.last_cursor = Some(position)],
             request_redraw |-> TRUE]
       ELSE [ctrl |-> [ctrl EXCEPT !.last_cursor = Some(position)],
             request_redraw |-> FALSE]
  ELSE [ctrl |-> ctrl, request_redraw |-> FALSE]

\* scroll_of taking a pixel delta as lines.
scroll_of_pixels_as_lines(delta) ==
  delta.y * 1000

\* let scroll = match delta { .. }, in thousandths of a line.
scroll_of(delta) ==
  IF delta.unit = "LineDelta" THEN delta.y * 1000 ELSE (delta.y * 1000) \div 50

\* let factor = (1.0 - scroll * 0.1).clamp(0.2, 5.0), in thousandths.
zoom_factor(scroll) == clamp(1000 - scroll \div 10, 200, 5000)

\* mouse_wheel clamping the radius from below only.
mouse_wheel_no_max(ctrl, delta) ==
  [ctrl EXCEPT !.radius =
     Max((ctrl.radius * zoom_factor(scroll_of(delta))) \div 1000, 1000)]

\* The MouseWheel arm.
mouse_wheel(ctrl, delta) ==
  [ctrl EXCEPT !.radius =
     clamp((ctrl.radius * zoom_factor(scroll_of(delta))) \div 1000, 1000, 50000)]

\* What one window_event does: the GpuState and the surface afterwards,
\* the GPU calls made, and whether elwt.exit() and win.request_redraw()
\* were called.
Outcome(st, surf, ops, exit, request_redraw) ==
  [state |-> st, surface |-> surf, ops |-> ops, exit |-> exit,
   request_redraw |-> request_redraw]

\* Err(Lost) => st.resize(surf, st.size): r is the failed render, rs the resize.
after_lost(r, rs) == Outcome(rs.state, rs.surface, r.ops \o rs.ops, FALSE, FALSE)

\* match_render exiting on every error but Lost.
match_render_exit_on_error(r, surf) ==
  IF r.result = "Ok" THEN Outcome(r.state, surf, r.ops, FALSE, FALSE)
  ELSE IF r.result = "Lost" THEN after_lost(r, resize(r.state, surf, r.state.size))
  ELSE Outcome(r.state, surf, r.ops, TRUE, FALSE)

\* match_render taking OutOfMemory as any other error.
match_render_ignore_oom(r, surf) ==
  IF r.result = "Ok" THEN Outcome(r.state, surf, r.ops, FALSE, FALSE)
  ELSE IF r.result = "Lost" THEN after_lost(r, resize(r.state, surf, r.state.size))
  ELSE Outcome(r.state, surf, r.ops, FALSE, FALSE)

\* The match on what render returned.
match_render(r, surf) ==
  IF r.result = "Ok" THEN Outcome(r.state, surf, r.ops, FALSE, FALSE)
  ELSE IF r.result = "Lost" THEN after_lost(r, resize(r.state, surf, r.state.size))
  ELSE IF r.result = "OutOfMemory" THEN Outcome(r.state, surf, r.ops, TRUE, FALSE)
  ELSE Outcome(r.state, surf, r.ops, FALSE, FALSE)

\* The RedrawRequested arm: render, then the match on what it returned (r).
\* t is self.start.elapsed().
redraw(st, surf, t, acquire) ==
  CHOOSE out \in {match_render(r, surf) : r \in {render(st, t, acquire)}} : TRUE

\* The Resized arm calling elwt.exit().
resized_exits(rs) == Outcome(rs.state, rs.surface, rs.ops, TRUE, FALSE)

\* The Resized arm.
resized(rs) == Outcome(rs.state, rs.surface, rs.ops, FALSE, FALSE)

\* The CursorMoved arm, m being what cursor_moved yields.
cursor_arm(st, surf, m) ==
  Outcome([st EXCEPT !.camera_ctrl = m.ctrl], surf, <<>>, FALSE, m.request_redraw)

\* The match of window_event, for this window's events.
handle(st, surf, event, t, acquire) ==
  CASE event.kind = "CloseRequested" -> Outcome(st, surf, <<>>, TRUE, FALSE)
    [] event.kind = "Resized" -> resized(resize(st, surf, event.new_size))
    [] event.kind = "MouseInput" /\ event.button = "Left" ->
         Outcome([st EXCEPT !.camera_ctrl = mouse_input(st.camera_ctrl, event.state)],
                 surf, <<>>, FALSE, FALSE)
    [] event.kind = "CursorMoved" ->
         cursor_arm(st, surf, cursor_moved(st.camera_ctrl, event.position))
    [] event.kind = "MouseWheel" ->
         Outcome([st EXCEPT !.camera_ctrl = mouse_wheel(st.camera_ctrl, event.delta)],
                 surf, <<>>, FALSE, TRUE)
    [] event.kind = "RedrawRequested" -> redraw(st, surf, t, acquire)
    [] OTHER -> Outcome(st, surf, <<>>, FALSE, FALSE)

(***************************************************************************)
(* The callbacks                                                           *)
(***************************************************************************)
\* Yaw is explored within MaxYawSteps drags of 100 pixels around its
\* initial value.
YawInRange(st) ==
  /\ st.camera_ctrl.yaw - CameraCtrl_new.yaw <= MaxYawSteps * 100 * sensitivity
  /\ CameraCtrl_new.yaw - st.camera_ctrl.yaw <= MaxYawSteps * 100 * sensitivity

Init ==
  /\ window = None
  /\ surface = None
  /\ state = None
  /\ start = 0
  /\ now = 0
  /\ run = "running"
  /\ redraw_requested = FALSE
  /\ last_call = [fn |-> "main", arm |-> "-"]
  /\ gpu_ops = <<>>

\* The monotonic clock advances between callbacks.  Its origin is the
\* instant resumed stores in start: no reading before that is ever used.
Tick ==
  /\ run = "running"
  /\ window # None
  /\ now < MaxTime
  /\ now' = now + 1
  /\ last_call' = [fn |-> "tick", arm |-> "-"]
  /\ gpu_ops' = <<>>
  /\ UNCHANGED <<window, surface, state, start, run, redraw_requested>>

\* The end of resumed when GpuState::new returned made.
Resumed_store(made) ==
  /\ surface' = Some(made.surface)
  /\ state' = Some(made.state)
  /\ gpu_ops' = made.ops
  /\ start' = now
  /\ run' = "running"

\* A failed expect() of resumed or of GpuState::new: the panic leaves the
\* window stored unless it was the window that failed, the surface stored
\* (unconfigured: extent 0 x 0) unless the window or the surface failed, and
\* no state.
Resumed_panic(init) ==
  /\ window' = IF init = "no_window" THEN window ELSE Some([id |-> WinId])
  /\ surface' = IF init \in {"no_window", "no_surface"} THEN surface
                ELSE Some([width |-> 0, height |-> 0])
  /\ gpu_ops' = <<>>
  /\ run' = "panicked"
  /\ UNCHANGED <<state, start>>

\* Resumed re-initialising on every call.
Resumed_every_time(inner_size, init) ==
  /\ run = "running"
  /\ last_call' = [fn |-> "resumed", arm |-> "-"]
  /\ UNCHANGED <<now, redraw_requested>>
  /\ IF init = "ok"
     THEN /\ window' = Some([id |-> WinId])
          /\ Resumed_store(GpuState_new(inner_size))
     ELSE Resumed_panic(init)

\* App::resumed.  inner_size is what window.inner_size() returns and init
\* how the creation steps go: "ok", or the expect() that fails ("no_window",
\* "no_surface", and "no_adapter", "no_device" in GpuState::new).
Resumed(inner_size, init) ==
  /\ run = "running"
  /\ last_call' = [fn |-> "resumed", arm |-> "-"]
  /\ UNCHANGED <<now, redraw_requested>>
  /\ IF window = None
     THEN IF init = "ok"
          THEN /\ window' = Some([id |-> WinId])
               /\ Resumed_store(GpuState_new(inner_size))
          ELSE Resumed_panic(init)
     ELSE /\ gpu_ops' = <<>>
          /\ UNCHANGED <<window, surface, state, start, run>>

\* window_event reaches its match: window, surface and state are Some and
\* the event is this window's.
Dispatched(window_id) ==
  window # None /\ surface # None /\ state # None /\ window_id = window[1].id

\* The arm of the match an event takes ("_" for the catch-all).
Arm(event) ==
  IF event.kind \in {"CloseRequested", "Resized", "CursorMoved", "MouseWheel", "RedrawRequested"}
  THEN event.kind
  ELSE IF event.kind = "MouseInput" /\ event.button = "Left" THEN "MouseInput"
  ELSE "_"

\* The effect of a dispatched window_event whose match yields out.
WindowEvent_apply(out, event) ==
  /\ YawInRange(out.state)
  /\ state' = Some(out.state)
  /\ surface' = Some(out.surface)
  /\ gpu_ops' = out.ops
  /\ run' = IF out.exit THEN "exiting" ELSE run
  /\ redraw_requested' =
       IF out.request_redraw THEN TRUE
       ELSE IF event.kind = "RedrawRequested" THEN FALSE
       ELSE redraw_requested

\* App::window_event.  acquire is what surface.get_current_texture()
\* returns should the handler call it.
WindowEvent(window_id, event, acquire) ==
  /\ run = "running"
  /\ UNCHANGED <<window, start, now>>
  /\ last_call' = [fn |-> "window_event",
                   arm |-> IF Dispatched(window_id) THEN Arm(event) ELSE "return"]
  /\ IF Dispatched(window_id)
     THEN \E out \in {handle(St, surface[1], event, now - start, acquire)} :
            WindowEvent_apply(out, event)
     ELSE /\ gpu_ops' = <<>>
          /\ UNCHANGED <<surface, state, run, redraw_requested>>

\* App::about_to_wait
AboutToWait ==
  /\ run = "running"
  /\ last_call' = [fn |-> "about_to_wait", arm |-> "-"]
  /\ gpu_ops' = <<>>
  /\ redraw_requested' = IF window # None THEN TRUE ELSE redraw_requested
  /\ UNCHANGED <<window, surface, state, start, now, run>>

\* window_event per event kind.
OnCloseRequested(window_id) == WindowEvent(window_id, CloseRequested, "Ok")
OnResized(window_id, new_size) == WindowEvent(window_id, Resized(new_size), "Ok")
OnMouseInput(window_id, mstate, button) ==
  WindowEvent(window_id, MouseInput(mstate, button), "Ok")
OnCursorMoved(window_id, x, y) == WindowEvent(window_id, CursorMoved(x, y), "Ok")
OnMouseWheel(window_id, delta) == WindowEvent(window_id, MouseWheel(delta), "Ok")
OnRedrawRequested(window_id, acquire) == WindowEvent(window_id, RedrawRequested, acquire)
OnOtherEvent(window_id) == WindowEvent(window_id, Focused, "Ok")

(***************************************************************************)
(* Inputs and specifications                                               *)
(***************************************************************************)
WindowIds == {WinId, OtherWinId}
\* Ok, or a wgpu::SurfaceError variant.
AcquireResults == {"Ok", "Timeout", "Outdated", "Lost", "OutOfMemory", "Other"}
\* How window, surface, adapter and device creation go in resumed.
InitResults == {"ok", "no_window", "no_surface", "no_adapter", "no_device"}
ElementStates == {"Pressed", "Released"}
MouseButtons == {"Left", "Right"}

\* The next-state relation over window extents widths x heights, cursor
\* positions cursors and scroll deltas deltas.
NextOn(widths, heights, cursors, deltas) ==
  \/ Tick
  \/ \E w \in widths, h \in heights, init \in InitResults : Resumed(PhysicalSize(w, h), init)
  \/ AboutToWait
  \/ \E window_id \in WindowIds : OnCloseRequested(window_id)
  \/ \E window_id \in WindowIds, w \in widths, h \in heights :
       OnResized(window_id, PhysicalSize(w, h))
  \/ \E window_id \in WindowIds, mstate \in ElementStates, button \in MouseButtons :
       OnMouseInput(window_id, mstate, button)
  \/ \E window_id \in WindowIds, pos \in cursors : OnCursorMoved(window_id, pos[1], pos[2])
  \/ \E window_id \in WindowIds, delta \in deltas : OnMouseWheel(window_id, delta)
  \/ \E window_id \in WindowIds, acquire \in AcquireResults :
       OnRedrawRequested(window_id, acquire)
  \/ \E window_id \in WindowIds : OnOtherEvent(window_id)

\* Resizes and redraws over many extents (zero for a minimised window, one
\* pixel, a multiple of the tile, one more than a multiple), with a
\* controller that drags in place and zooms in.
Widths == {0, 1, 8, 9}
Heights == {0, 1, 8}
Cursors == {<<0, 0>>}
Deltas == {LineDelta(10)}
Next == NextOn(Widths, Heights, Cursors, Deltas)
Spec == Init /\ [][Next]_vars

\* Drags over cursor positions 100 pixels apart in x and 400 pixels apart
\* in y (2 radians, which carries pitch to either limit), in one 8 x 8 window.
OneExtent == {8}
DragCursors == {<<0, 0>>, <<100, 0>>, <<0, 400>>}
DragDeltas == {LineDelta(0)}
NextDrag == NextOn(OneExtent, OneExtent, DragCursors, DragDeltas)
SpecDrag == Init /\ [][NextDrag]_vars

\* Scrolls in both units and of both signs, with the factor at and beyond
\* both of its limits, in one 8 x 8 window.
ZoomDeltas == {LineDelta(8), LineDelta(-50), PixelDelta(500), PixelDelta(-2000)}
NextZoom == NextOn(OneExtent, OneExtent, Cursors, ZoomDeltas)
SpecZoom == Init /\ [][NextZoom]_vars

\* Scrolls of one line in and five lines out and their pixel equivalents, in
\* one 8 x 8 window.  Scrolled is the radius n scrolls of delta give; the
\* radii explored are those within MaxScrolls scrolls of one delta from the
\* initial radius.
ScrollDeltas == {LineDelta(1), LineDelta(-5), PixelDelta(50), PixelDelta(-250)}
RECURSIVE Scrolled(_, _, _)
Scrolled(delta, radius, n) ==
  IF n = 0 THEN radius
  ELSE Scrolled(delta, mouse_wheel([radius |-> radius], delta).radius, n - 1)
ScrollRadii ==
  {Scrolled(delta, CameraCtrl_new.radius, n) : delta \in ScrollDeltas, n \in 0..MaxScrolls}
ScrollsFrom(radius) ==
  {delta \in ScrollDeltas : Scrolled(delta, radius, 1) \in ScrollRadii}
NextScroll ==
  NextOn(OneExtent, OneExtent, Cursors,
         IF state = None THEN ScrollDeltas ELSE ScrollsFrom(St.camera_ctrl.radius))
SpecScroll == Init /\ [][NextScroll]_vars

\* Drags along a diagonal (100 pixels in x, 800 in y, which carries pitch
\* from limit to limit) and scrolls in, in one 8 x 8 window, with redraws
\* that keep coming and acquisitions that succeed in the end: about_to_wait
\* requests a redraw on every iteration of the event loop, the loop delivers
\* requested redraws for as long as it runs, and the presentation engine
\* hands out a texture eventually.
LiveCursors == {<<0, 0>>, <<100, 800>>}
NextLive == NextOn(OneExtent, OneExtent, LiveCursors, Deltas)
SpecLive ==
  Init /\ [][NextLive]_vars /\ WF_vars(OnRedrawRequested(WinId, "Ok"))

(***************************************************************************)
(* Properties                                                              *)
(***************************************************************************)
\* The calls of a given kind among those the last callback made.
OpsOf(kind) == {i \in 1..Len(gpu_ops) : gpu_ops[i].op = kind}

\* The last callback was a dispatched window_event that took this arm.
Took(arm) == last_call.fn = "window_event" /\ last_call.arm = arm

\* The step is a dispatched window_event taking this arm.
Takes(arm) == state # None /\ last_call'.fn = "window_event" /\ last_call'.arm = arm

\* Every extent and cursor position the specifications draw from.
AllWidths == Widths \cup OneExtent
AllHeights == Heights \cup OneExtent
AllCursors == Cursors \cup DragCursors

CeilDiv(a, b) == IF a % b = 0 THEN a \div b ELSE a \div b + 1

\* C1: after a resize notification (W,H) with W > 0 and H > 0, in any state,
\* the surface is configured to (W,H), the stored texture is a newly created
\* one of extent (W,H), and both binding sets reference that new texture and
\* not the previous one.
C1_ResizeRebuildsAll ==
  [][\A w \in AllWidths, h \in AllHeights :
       (Takes("Resized") /\ w > 0 /\ h > 0 /\ OnResized(WinId, PhysicalSize(w, h)))
       => /\ surface'[1] = [width |-> w, height |-> h]
          /\ St'.config.width = w /\ St'.config.height = h
          /\ St'.storage_tex.width = w /\ St'.storage_tex.height = h
          /\ St'.storage_tex.id \notin LiveTextures(St)
          /\ \E i \in 1..Len(gpu_ops') : gpu_ops'[i] = [op |-> "create_texture",
                                                        tex |-> St'.storage_tex]
          /\ St'.storage_view.texture = St'.storage_tex
          /\ St'.compute_bg.view = St'.storage_view
          /\ St'.render_bg.view = St'.storage_view
          /\ St'.compute_bg.view.texture.id # St.storage_tex.id
          /\ St'.render_bg.view.texture.id # St.storage_tex.id]_vars

\* A resize to 9 x 8 has replaced an earlier texture built by a resize.
C1_Witness ==
  /\ state # None
  /\ Took("Resized")
  /\ OpsOf("create_texture") # {}
  /\ St.config.width = 9 /\ St.config.height = 8
  /\ St.storage_tex.id = 1
  /\ St.camera_ctrl.radius # CameraCtrl_new.radius

\* C2: a resize notification with width = 0 or height = 0, in any state,
\* changes nothing: size, config, the surface, the storage texture, both
\* binding sets, the camera block and the controller stay as they were, and
\* no device, queue or surface call is made.
C2_ZeroResizeIsNoOp ==
  [][\A w \in AllWidths, h \in AllHeights :
       (Takes("Resized") /\ (w = 0 \/ h = 0) /\ OnResized(WinId, PhysicalSize(w, h)))
       => /\ state' = state
          /\ surface' = surface
          /\ gpu_ops' = <<>>
          /\ UNCHANGED <<window, run, redraw_requested, start>>]_vars

\* A zero-sized resize arrived mid-drag, after a zoom the camera block has
\* not yet seen and after an earlier real resize.
C2_Witness ==
  /\ state # None
  /\ Took("Resized")
  /\ gpu_ops = <<>>
  /\ St.camera_ctrl.dragging /\ St.camera_ctrl.last_cursor # None
  /\ St.camera_buf.view_inv.radius # St.camera_ctrl.radius
  /\ St.storage_tex.id = 2

\* C3: in every frame that is rendered, the compute dispatch and the display
\* draw use binding sets that reference the current storage texture, the
\* same one, and that texture's extent is config's and the surface's.
C3_FrameBindsCurrentImage ==
  (state # None /\ Took("RedrawRequested") /\ OpsOf("submit") # {})
  => /\ \A i \in OpsOf("dispatch_workgroups") :
          /\ gpu_ops[i].bind_group = St.compute_bg
          /\ gpu_ops[i].bind_group.view.texture = St.storage_tex
     /\ \A i \in OpsOf("draw") :
          /\ gpu_ops[i].bind_group = St.render_bg
          /\ gpu_ops[i].bind_group.view.texture = St.storage_tex
     /\ OpsOf("dispatch_workgroups") # {} /\ OpsOf("draw") # {}
     /\ St.storage_view.texture = St.storage_tex
     /\ St.storage_tex.width = St.config.width
     /\ St.storage_tex.height = St.config.height
     /\ St.storage_tex.width = surface[1].width
     /\ St.storage_tex.height = surface[1].height

\* A frame rendered after a resize to 9 x 1 replaced the first texture.
C3_Witness ==
  /\ state # None
  /\ Took("RedrawRequested")
  /\ OpsOf("present") # {}
  /\ St.storage_tex.id = 2
  /\ St.config.width = 9 /\ St.config.height = 1

\* C4: once initialised, config's width and height are non-zero and equal
\* the stored window size, for every initial window size and every sequence
\* of resizes.
C4_ConfigEqualsSize ==
  state # None
  => /\ St.config.width > 0 /\ St.config.height > 0
     /\ St.config.width = St.size.width
     /\ St.config.height = St.size.height

\* C5: in every frame that is rendered the dispatch grid is
\* (ceil(W/8), ceil(H/8), 1) for the extent (W,H) of the texture bound to
\* the dispatch.
C5_DispatchGridCoversImage ==
  state # None
  => \A i \in OpsOf("dispatch_workgroups") :
       /\ gpu_ops[i].x = CeilDiv(gpu_ops[i].bind_group.view.texture.width, 8)
       /\ gpu_ops[i].y = CeilDiv(gpu_ops[i].bind_group.view.texture.height, 8)
       /\ gpu_ops[i].z = 1

\* C6 as stated: pitch is strictly inside (-L, L), L = 0.995 * pi / 2, in
\* every reachable state.
C6_PitchStrictlyInside ==
  state # None => (-1562942 < St.camera_ctrl.pitch /\ St.camera_ctrl.pitch < 1562942)

\* C6 amended: pitch lies in the closed interval [-L, L], L = 0.995 * pi / 2,
\* after every pitch update and in every reachable state.
C6_PitchWithinLimit ==
  state # None => (-1562942 <= St.camera_ctrl.pitch /\ St.camera_ctrl.pitch <= 1562942)

\* A drag has carried pitch onto the limit.
C6_Witness ==
  /\ state # None
  /\ Took("CursorMoved")
  /\ St.camera_ctrl.pitch = 1562942

\* C7: the camera distance lies in [1, 50] in every reachable state, after
\* any scrolls in line or pixel units interleaved with any other events.
C7_RadiusWithinRange ==
  state # None => (1000 <= St.camera_ctrl.radius /\ St.camera_ctrl.radius <= 50000)

\* A scroll has carried the distance onto its upper limit.
C7_Witness ==
  /\ state # None
  /\ Took("MouseWheel")
  /\ St.camera_ctrl.radius = 50000

\* C8: a cursor move while the drag flag is inactive changes nothing: the
\* controller (yaw, pitch, distance, drag flag, last cursor) and everything
\* else stay as they were, and no redraw is requested.
C8_IdleMoveIgnored ==
  [][(Takes("CursorMoved") /\ ~St.camera_ctrl.dragging)
     => /\ state' = state
        /\ St'.camera_ctrl.last_cursor = None
        /\ redraw_requested' = redraw_requested
        /\ gpu_ops' = <<>>
        /\ UNCHANGED <<surface, window, run>>]_vars

\* After press, drag and release (yaw and pitch have moved), with no redraw
\* pending, a cursor move has arrived.
C8_Witness ==
  /\ state # None
  /\ Took("CursorMoved")
  /\ ~St.camera_ctrl.dragging
  /\ St.camera_ctrl.yaw # CameraCtrl_new.yaw
  /\ St.camera_ctrl.pitch # CameraCtrl_new.pitch
  /\ ~redraw_requested

\* C9: a left-button press leaves the controller Dragging with no last
\* cursor, in whatever state it arrives; a left-button release leaves it
\* Idle with no last cursor.
C9_PressClearsLastCursor ==
  [][/\ (Takes("MouseInput") /\ OnMouseInput(WinId, "Pressed", "Left"))
        => (St'.camera_ctrl.dragging /\ St'.camera_ctrl.last_cursor = None)
     /\ (Takes("MouseInput") /\ OnMouseInput(WinId, "Released", "Left"))
        => (~St'.camera_ctrl.dragging /\ St'.camera_ctrl.last_cursor = None)]_vars

\* C10: a cursor move to q while Dragging with a previous sample p sets
\* yaw := yaw - (q.x - p.x) * 0.005 and
\* pitch := clamp(pitch - (q.y - p.y) * 0.005, -L, L), keeps distance and the
\* drag flag, requests a redraw and stores q; with no previous sample it only
\* stores q.  From yaw 0.6, pitch 0.3 a delta of (+100, 0) gives yaw 0.1,
\* pitch 0.3.
C10_DragUpdatesYawPitch ==
  [][\A q \in AllCursors :
       (Takes("CursorMoved") /\ St.camera_ctrl.dragging /\ OnCursorMoved(WinId, q[1], q[2]))
       => LET c == St.camera_ctrl
              d == St'.camera_ctrl
          IN  /\ d.last_cursor = <<[x |-> q[1], y |-> q[2]]>>
              /\ d.radius = c.radius /\ d.dragging /\ d.fov_y = c.fov_y
              /\ St' = [St EXCEPT !.camera_ctrl = d]
              /\ IF c.last_cursor = <<>>
                 THEN /\ d.yaw = c.yaw /\ d.pitch = c.pitch
                      /\ redraw_requested' = redraw_requested
                 ELSE LET p == c.last_cursor[1]
                          raw == c.pitch - (q[2] - p.y) * 5000
                      IN  /\ d.yaw = c.yaw - (q[1] - p.x) * 5000
                          /\ d.pitch = IF raw < -1562942 THEN -1562942
                                       ELSE IF raw > 1562942 THEN 1562942 ELSE raw
                          /\ redraw_requested'
                          /\ (c.yaw = 600000 /\ c.pitch = 300000
                              /\ q[1] - p.x = 100 /\ q[2] - p.y = 0)
                             => (d.yaw = 100000 /\ d.pitch = 300000)]_vars

\* The drag of the scenario: from the initial controller, a move by
\* (+100, 0) has given yaw 0.1 and kept pitch 0.3 and distance 4.0.
C10_Witness ==
  /\ state # None
  /\ Took("CursorMoved")
  /\ St.camera_ctrl.dragging
  /\ St.camera_ctrl.last_cursor = <<[x |-> 100, y |-> 0]>>
  /\ St.camera_ctrl.yaw = 100000
  /\ St.camera_ctrl.pitch = 300000
  /\ St.camera_ctrl.radius = 4000
  /\ redraw_requested

\* C11: a scroll of s lines, in any controller state, sets distance :=
\* clamp(distance * clamp(1 - 0.1 * s, 0.2, 5.0), 1, 50), keeps yaw, pitch,
\* the drag flag and the last cursor, and requests a redraw; a pixel scroll
\* counts pixels / 50 lines.  From 4.0 a scroll of +1 gives 3.6; twenty
\* scrolls of -5 from 4.0 reach 50, and a further one keeps 50.
C11_ScrollScalesDistance ==
  [][\A d \in ScrollDeltas :
       (Takes("MouseWheel") /\ OnMouseWheel(WinId, d))
       => LET c == St.camera_ctrl
              s == IF d.unit = "PixelDelta" THEN (d.y * 1000) \div 50 ELSE d.y * 1000
              raw == 1000 - s \div 10
              f == IF raw < 200 THEN 200 ELSE IF raw > 5000 THEN 5000 ELSE raw
              scaled == (c.radius * f) \div 1000
              r == IF scaled < 1000 THEN 1000 ELSE IF scaled > 50000 THEN 50000 ELSE scaled
          IN  /\ St'.camera_ctrl = [yaw |-> c.yaw, pitch |-> c.pitch, radius |-> r,
                                    fov_y |-> c.fov_y, dragging |-> c.dragging,
                                    last_cursor |-> c.last_cursor]
              /\ St' = [St EXCEPT !.camera_ctrl = St'.camera_ctrl]
              /\ redraw_requested'
              /\ (c.radius = 4000 /\ s = 1000) => St'.camera_ctrl.radius = 3600
              /\ (c.radius = 50000 /\ s = -5000) => St'.camera_ctrl.radius = 50000
              /\ Scrolled(LineDelta(-5), 4000, 20) = 50000]_vars

\* While dragging with a cursor sample stored, a scroll out has carried the
\* distance to 50 and a redraw is pending.
C11_Witness ==
  /\ state # None
  /\ Took("MouseWheel")
  /\ St.camera_ctrl.dragging
  /\ St.camera_ctrl.last_cursor # None
  /\ St.camera_ctrl.radius = 50000
  /\ St.camera_buf.view_inv.radius = 50000
  /\ redraw_requested

\* The redraw just handled acquired its surface texture.
Acquired == \E i \in OpsOf("get_current_texture") : gpu_ops[i].result = "Ok"

\* C12: a redraw whose acquisition succeeds makes, in this order and once
\* each: the camera block overwrite, the acquisition, one compute dispatch,
\* one display draw of 3 vertices into a target cleared to black, one
\* submission, and present.  The draw never precedes the dispatch and
\* present never precedes the submission.
C12_FrameStepsInOrder ==
  (Took("RedrawRequested") /\ Acquired)
  => /\ Len(gpu_ops) = 6
     /\ [i \in 1..6 |-> gpu_ops[i].op] =
          <<"write_buffer", "get_current_texture", "dispatch_workgroups",
            "draw", "submit", "present">>
     /\ \A i \in OpsOf("draw") :
          /\ gpu_ops[i].vertices = 3
          /\ gpu_ops[i].clear = "BLACK"
          /\ \A j \in OpsOf("dispatch_workgroups") : j < i
     /\ \A i \in OpsOf("present") : \A j \in OpsOf("submit") : j < i

\* A frame was presented in a window resized to 9 x 1, a second after the start.
C12_Witness ==
  /\ state # None
  /\ Took("RedrawRequested")
  /\ Len(gpu_ops) = 6
  /\ gpu_ops[6].op = "present"
  /\ St.size = [width |-> 9, height |-> 1]
  /\ now - start = 1

\* C13: the camera block the dispatch of a submitted frame reads was written
\* in that same redraw, from the controller state and the surface extent
\* current at that redraw: its width and height are those of the bound
\* storage texture and its reserved component is 0.
C13_FrameReadsFreshCamera ==
  (Took("RedrawRequested") /\ OpsOf("submit") # {})
  => /\ OpsOf("write_buffer") = {1}
     /\ gpu_ops[1].data = St.camera_buf
     /\ St.camera_buf.view_inv = [yaw |-> St.camera_ctrl.yaw,
                                  pitch |-> St.camera_ctrl.pitch,
                                  radius |-> St.camera_ctrl.radius]
     /\ St.camera_buf.proj_inv.fov_y = St.camera_ctrl.fov_y
     /\ St.camera_buf.proj_inv.aspect[1] * surface[1].height =
          St.camera_buf.proj_inv.aspect[2] * surface[1].width
     /\ St.camera_buf.params =
          <<surface[1].width, surface[1].height, now - start, 0>>
     /\ \A i \in OpsOf("dispatch_workgroups") :
          /\ 1 < i
          /\ gpu_ops[i].bind_group.buffer = "camera_buf"
          /\ gpu_ops[i].bind_group.view.texture.width = St.camera_buf.params[1]
          /\ gpu_ops[i].bind_group.view.texture.height = St.camera_buf.params[2]

\* A frame was submitted after a scroll changed the distance and a resize
\* changed the extent, a second after the start.
C13_Witness ==
  /\ state # None
  /\ Took("RedrawRequested")
  /\ OpsOf("submit") # {}
  /\ St.camera_ctrl.radius # CameraCtrl_new.radius
  /\ St.camera_buf.params = <<9, 8, 1, 0>>

\* C14: when acquisition reports the surface lost, in any reachable state
\* (also after a start with a zero-sized window), the same event re-runs the
\* whole resize protocol at the current size: the surface is reconfigured,
\* the storage texture recreated and both binding sets rebuilt; nothing is
\* submitted or presented and the application keeps running.
C14_LostRerunsResize ==
  (Took("RedrawRequested") /\ \E i \in OpsOf("get_current_texture") : gpu_ops[i].result = "Lost")
  => /\ \E c \in OpsOf("configure"), t \in OpsOf("create_texture") :
          /\ c < t
          /\ gpu_ops[t].tex = St.storage_tex
          /\ \E b1, b2 \in OpsOf("create_bind_group") :
               /\ t < b1 /\ b1 < b2
               /\ gpu_ops[b1].bind_group = St.compute_bg
               /\ gpu_ops[b2].bind_group = St.render_bg
     /\ OpsOf("submit") = {}
     /\ OpsOf("present") = {}
     /\ run = "running"

\* C15: when acquisition fails with any other error (timeout, outdated,
\* other), the frame is skipped: no dispatch or draw is recorded, nothing is
\* submitted or presented, the surface configuration, the storage texture,
\* both binding sets and the controller stay as they were, and the
\* application keeps running; every redraw makes one acquisition attempt,
\* so the next one tries again.
C15_OtherErrorsSkipFrame ==
  [][/\ \A a \in {"Timeout", "Outdated", "Other"} :
          (Takes("RedrawRequested") /\ OnRedrawRequested(WinId, a))
          => /\ [i \in 1..Len(gpu_ops') |-> gpu_ops'[i].op] =
                  <<"write_buffer", "get_current_texture">>
             /\ surface' = surface
             /\ St'.config = St.config
             /\ St'.size = St.size
             /\ St'.storage_tex = St.storage_tex
             /\ St'.storage_view = St.storage_view
             /\ St'.compute_bg = St.compute_bg
             /\ St'.render_bg = St.render_bg
             /\ St'.camera_ctrl = St.camera_ctrl
             /\ run' = "running"
     /\ Takes("RedrawRequested")
          => Cardinality({i \in 1..Len(gpu_ops') : gpu_ops'[i].op = "get_current_texture"}) = 1
    ]_vars

\* A redraw was skipped on an outdated surface, after a scroll and a resize
\* to 9 x 8.
C15_Witness ==
  /\ state # None
  /\ Took("RedrawRequested")
  /\ Len(gpu_ops) = 2
  /\ gpu_ops[2] = [op |-> "get_current_texture", result |-> "Outdated"]
  /\ St.camera_ctrl.radius # CameraCtrl_new.radius
  /\ St.size = [width |-> 9, height |-> 8]
  /\ run = "running"

\* C16: when acquisition reports out-of-memory the application terminates
\* without retrying: the same event requests exit after its one failed
\* acquisition, with nothing reconfigured, submitted or presented, and once
\* exit is requested no acquisition, submission or present happens again.
C16_OutOfMemoryExits ==
  [][/\ (Takes("RedrawRequested") /\ OnRedrawRequested(WinId, "OutOfMemory"))
          => /\ run' = "exiting"
             /\ [i \in 1..Len(gpu_ops') |-> gpu_ops'[i].op] =
                  <<"write_buffer", "get_current_texture">>
             /\ surface' = surface
     /\ run = "exiting"
          => /\ run' = "exiting"
             /\ \A i \in 1..Len(gpu_ops') :
                  gpu_ops'[i].op \notin {"get_current_texture", "submit", "present"}
    ]_vars

\* Exit was requested by a redraw whose acquisition reported out-of-memory,
\* in a window resized to 9 x 8.
C16_Witness ==
  /\ run = "exiting"
  /\ Took("RedrawRequested")
  /\ gpu_ops[Len(gpu_ops)] = [op |-> "get_current_texture", result |-> "OutOfMemory"]
  /\ St.size = [width |-> 9, height |-> 8]

\* The step ends the run: elwt.exit() or a panic.
Exits == run = "running" /\ run' # "running"

\* The step is a redraw whose acquisition reports out-of-memory.
TakesOutOfMemory ==
  /\ Takes("RedrawRequested")
  /\ \E i \in 1..Len(gpu_ops') :
       gpu_ops'[i] = [op |-> "get_current_texture", result |-> "OutOfMemory"]

\* A close request always exits; no resize, input event or other event, and
\* no redraw but one that meets out-of-memory, ends the run.
CloseExitsOthersDoNot ==
  /\ Takes("CloseRequested") => run' = "exiting"
  /\ (\E arm \in {"Resized", "MouseInput", "CursorMoved", "MouseWheel", "_"} : Takes(arm))
       => run' = run
  /\ (Takes("RedrawRequested") /\ ~TakesOutOfMemory) => run' = run
  /\ last_call'.fn \in {"tick", "about_to_wait"} => run' = run

C18_ControllerChangedByInputOnly ==
  [][/\ (state # None /\ state' # None /\ St'.camera_ctrl # St.camera_ctrl)
          => \E arm \in {"MouseInput", "CursorMoved", "MouseWheel"} : Takes(arm)
     /\ (\E arm \in {"RedrawRequested", "Resized", "CloseRequested", "_"} : Takes(arm))
          => St'.camera_ctrl = St.camera_ctrl
     /\ state' # None => St'.camera_ctrl.fov_y = 1047197
     /\ state # None => state' # None
    ]_vars

\* A surface-lost recovery has rebuilt the texture while the controller was
\* dragging, with a cursor sample stored and the distance changed.
C18_Witness ==
  /\ state # None
  /\ Took("RedrawRequested")
  /\ OpsOf("create_texture") # {}
  /\ St.camera_ctrl.dragging
  /\ St.camera_ctrl.last_cursor # None
  /\ St.camera_ctrl.radius # CameraCtrl_new.radius

\* The eye (yaw, pitch, distance) of a controller.
Eye(ctrl) == [yaw |-> ctrl.yaw, pitch |-> ctrl.pitch, radius |-> ctrl.radius]

\* A frame built from the current eye was just submitted and presented.
FramePresented ==
  /\ state # None
  /\ Took("RedrawRequested")
  /\ OpsOf("submit") # {}
  /\ OpsOf("present") # {}
  /\ St.camera_buf.view_inv = Eye(St.camera_ctrl)

\* C19: every input event that changes yaw, pitch or distance requests a
\* redraw, and a cursor move with no previous sample requests none; while the
\* event loop keeps running, with redraws delivered and acquisition
\* succeeding in the end, a pending redraw request leads to a frame built
\* from the current controller state being submitted and presented.
C19_ChangeLeadsToFrame ==
  /\ [][/\ (\E arm \in {"MouseInput", "CursorMoved", "MouseWheel"} : Takes(arm))
             /\ Eye(St'.camera_ctrl) # Eye(St.camera_ctrl)
             => redraw_requested'
        /\ (Takes("CursorMoved") /\ St.camera_ctrl.last_cursor = <<>>)
             => (redraw_requested' = redraw_requested /\ Eye(St'.camera_ctrl) = Eye(St.camera_ctrl))
       ]_vars
  /\ (state # None /\ redraw_requested /\ run = "running")
       ~> (FramePresented \/ run # "running")

\* A frame was presented showing a dragged and zoomed eye.
C19_Witness ==
  /\ FramePresented
  /\ ~redraw_requested
  /\ St.camera_ctrl.yaw = 100000
  /\ St.camera_ctrl.pitch = -1562942
  /\ St.camera_ctrl.radius = 1000

\* The step leaves the window, the surface, the GPU state (storage texture,
\* binding sets, controller), the start time, the pending redraw request and
\* the run as they were, and makes no GPU call.
NoEffect ==
  /\ UNCHANGED <<window, surface, state, start, now, run, redraw_requested>>
  /\ gpu_ops' = <<>>

\* The step delivers a window event carrying another window's id.
ForeignWindowEvent ==
  \/ OnCloseRequested(OtherWinId)
  \/ \E w \in Widths, h \in Heights : OnResized(OtherWinId, PhysicalSize(w, h))
  \/ \E mstate \in ElementStates : OnMouseInput(OtherWinId, mstate, "Left")
  \/ \E pos \in Cursors : OnCursorMoved(OtherWinId, pos[1], pos[2])
  \/ \E delta \in Deltas : OnMouseWheel(OtherWinId, delta)
  \/ \E acquire \in AcquireResults : OnRedrawRequested(OtherWinId, acquire)

\* C20: initialization happens at most once.  The first resumed creates the
\* window, the surface and the graphics state with the controller at yaw 0.6,
\* pitch 0.3, distance 4.0, Idle, no last cursor; every later resumed creates
\* nothing and leaves window, surface, storage texture, binding sets,
\* controller and start time unchanged; window events delivered before
\* initialization or carrying another window's id have no effect.
C20_InitializedOnce ==
  [][/\ (last_call'.fn = "resumed" /\ window = None /\ run' = "running")
          => /\ window' # None /\ surface' # None /\ state' # None
             /\ St'.camera_ctrl = [yaw |-> 600000, pitch |-> 300000, radius |-> 4000,
                                   fov_y |-> 1047197, dragging |-> FALSE,
                                   last_cursor |-> <<>>]
             /\ start' = now
     /\ (last_call'.fn = "resumed" /\ window # None) => NoEffect
     /\ window # None => window' = window
     /\ (last_call'.fn = "window_event" /\ state = None) => NoEffect
     /\ ForeignWindowEvent => NoEffect
    ]_vars

\* A later resumed arrived a second after the start, in a window resized to
\* 9 x 8 and in the middle of a drag.
C20_Witness ==
  /\ last_call.fn = "resumed"
  /\ state # None
  /\ now = 1 /\ start = 0
  /\ St.size = [width |-> 9, height |-> 8]
  /\ St.camera_ctrl.dragging
  /\ St.camera_ctrl.last_cursor # None

====
